---- MODULE Spec2Model ----
(***************************************************************************)
(* GreenVision (src/app.py): NDVI statistics, false colour composite,      *)
(* the Streamlit script run (sample load, upload, report, AI narrative)    *)
(* and two sessions sharing the upload temp path.                          *)
(*                                                                         *)
(* Numbers.  A float is a record [kind, num, den]: kind "fin" is the       *)
(* rational num/den in lowest terms (den > 0), kinds "nan", "pinf" and     *)
(* "ninf" are the IEEE special values.  Arithmetic on the finite values is *)
(* exact; comparisons and arithmetic with the special values follow IEEE   *)
(* 754 (every comparison with NaN is false, inf - inf and inf/inf and      *)
(* inf*0 are NaN).  Rounding error and overflow of float64 arithmetic on   *)
(* finite values are not modelled: pixel values are of the magnitude of    *)
(* NDVI values and reflectances.  A 2-D array is modelled by the sequence  *)
(* of its pixels: every reduction in the source is over the whole array.   *)
(***************************************************************************)
EXTENDS Integers, Sequences, FiniteSets, TLC

VARIABLES
    ndvi,            \* analyze_ndvi's argument: the band-1 array
    ndvi_stats,      \* the record analyze_ndvi returned, or None
    value,           \* explain_ndvi's argument, or None
    label,           \* explain_ndvi's result, or None
    band,            \* normalize's argument
    normalized,      \* normalize's result, or None
    src,             \* the open raster: the sequence of its bands
    shown,           \* what process_and_display rendered and returned, or None
    pc,              \* position of the script run
    inputs,          \* the run's inputs: button, download outcomes, uploads, key, AI outcome
    sample_paths,    \* list of (path, name) of the downloaded samples
    image_names,     \* names of the processed images
    ndvi_stats_list, \* statistics of the processed images
    fs,              \* the temp directory: path -> content
    ui,              \* what the run has shown: messages, table, download, AI section
    sess             \* the concurrent sessions of the upload path

vars == <<ndvi, ndvi_stats, value, label, band, normalized, src, shown, pc, inputs,
          sample_paths, image_names, ndvi_stats_list, fs, ui, sess>>

None == [kind |-> "none"]

\* no raster is open
NoRaster == [bands |-> <<>>, bad |-> 0]

----------------------------------------------------------------------------
(* Floats *)

Abs(n) == IF n < 0 THEN -n ELSE n

RECURSIVE GCD(_, _)
GCD(a, b) == IF b = 0 THEN a ELSE GCD(b, a % b)

\* the rational n/d (d > 0) in lowest terms
Q(n, d) ==
    LET g == GCD(Abs(n), d)
    IN  [kind |-> "fin", num |-> n \div g, den |-> d \div g]

NaN  == [kind |-> "nan",  num |-> 0, den |-> 1]
PInf == [kind |-> "pinf", num |-> 0, den |-> 1]
NInf == [kind |-> "ninf", num |-> 0, den |-> 1]

isfinite(x) == x.kind = "fin"
isnan(x) == x.kind = "nan"

\* x < y on floats
Lt(x, y) ==
    CASE isnan(x) \/ isnan(y) -> FALSE
      [] x.kind = "pinf" -> FALSE
      [] y.kind = "ninf" -> FALSE
      [] x.kind = "ninf" -> TRUE
      [] y.kind = "pinf" -> TRUE
      [] OTHER -> x.num * y.den < y.num * x.den

Gt(x, y) == Lt(y, x)

Neg(x) ==
    CASE x.kind = "pinf" -> NInf
      [] x.kind = "ninf" -> PInf
      [] x.kind = "nan" -> NaN
      [] OTHER -> Q(-x.num, x.den)

Add(x, y) ==
    CASE isnan(x) \/ isnan(y) -> NaN
      [] isfinite(x) /\ isfinite(y) -> Q(x.num * y.den + y.num * x.den, x.den * y.den)
      [] isfinite(x) -> y
      [] isfinite(y) -> x
      [] x.kind = y.kind -> x
      [] OTHER -> NaN

Sub(x, y) == Add(x, Neg(y))

Sign(x) ==
    CASE x.kind = "pinf" -> 1
      [] x.kind = "ninf" -> -1
      [] OTHER -> IF x.num > 0 THEN 1 ELSE IF x.num < 0 THEN -1 ELSE 0

Mul(x, y) ==
    CASE isnan(x) \/ isnan(y) -> NaN
      [] isfinite(x) /\ isfinite(y) -> Q(x.num * y.num, x.den * y.den)
      [] Sign(x) * Sign(y) = 0 -> NaN
      [] Sign(x) * Sign(y) > 0 -> PInf
      [] OTHER -> NInf

\* x / y; numpy divides by zero with a warning: 0/0 is NaN, x/0 is +/-inf
Div(x, y) ==
    CASE isnan(x) \/ isnan(y) -> NaN
      [] isfinite(x) /\ isfinite(y) ->
            IF y.num > 0 THEN Q(x.num * y.den, x.den * y.num)
            ELSE IF y.num < 0 THEN Q(-(x.num * y.den), x.den * (-y.num))
            ELSE IF x.num = 0 THEN NaN
            ELSE IF x.num > 0 THEN PInf ELSE NInf
      [] isfinite(x) -> Q(0, 1)
      [] isfinite(y) -> IF Sign(x) * Sign(y) > 0 THEN PInf ELSE NInf
      [] OTHER -> NaN

----------------------------------------------------------------------------
(* NDVI statistics: explain_ndvi, analyze_ndvi *)

NonVegetation    == "Non-vegetation (water, barren land etc.)"
VerySparse       == "Very sparse or stressed vegetation"
LowToModerate    == "Low to moderate vegetation"
ModeratelyHealthy == "Moderately healthy crops"
HealthyDense     == "Healthy and dense vegetation"

Labels == {NonVegetation, VerySparse, LowToModerate, ModeratelyHealthy, HealthyDense}

\* a plausible slip: the thresholds compared with <= instead of <
explain_ndvi_le(v) ==
    IF ~Gt(v, Q(0, 1)) /\ ~isnan(v) THEN NonVegetation
    ELSE IF ~Gt(v, Q(2, 10)) /\ ~isnan(v) THEN VerySparse
    ELSE IF ~Gt(v, Q(4, 10)) /\ ~isnan(v) THEN LowToModerate
    ELSE IF ~Gt(v, Q(6, 10)) /\ ~isnan(v) THEN ModeratelyHealthy
    ELSE HealthyDense

explain_ndvi(v) ==
    IF Lt(v, Q(0, 1)) THEN NonVegetation
    ELSE IF Lt(v, Q(2, 10)) THEN VerySparse
    ELSE IF Lt(v, Q(4, 10)) THEN LowToModerate
    ELSE IF Lt(v, Q(6, 10)) THEN ModeratelyHealthy
    ELSE HealthyDense

\* np.where(np.isfinite(arr), arr, np.nan)
\* a plausible slip: only NaN is treated as missing, the infinities are kept
mask_nan_only(arr) == arr

mask_nonfinite(arr) == [i \in DOMAIN arr |-> IF isfinite(arr[i]) THEN arr[i] ELSE NaN]

NotNaN(arr) == {i \in DOMAIN arr : ~isnan(arr[i])}

\* a plausible slip: an all-missing array reduced to 0 instead of NaN
nanmin_zero(arr) ==
    IF NotNaN(arr) = {} THEN Q(0, 1)
    ELSE arr[CHOOSE i \in NotNaN(arr) : \A j \in NotNaN(arr) : ~Lt(arr[j], arr[i])]

\* np.nanmin: the least entry that is not NaN; NaN (and a warning) when there is none
nanmin(arr) ==
    IF NotNaN(arr) = {} THEN NaN
    ELSE arr[CHOOSE i \in NotNaN(arr) : \A j \in NotNaN(arr) : ~Lt(arr[j], arr[i])]

\* np.nanmax
nanmax(arr) ==
    IF NotNaN(arr) = {} THEN NaN
    ELSE arr[CHOOSE i \in NotNaN(arr) : \A j \in NotNaN(arr) : ~Gt(arr[j], arr[i])]

RECURSIVE nansum(_)
nansum(arr) ==
    IF arr = <<>> THEN Q(0, 1)
    ELSE IF isnan(Head(arr)) THEN nansum(Tail(arr))
    ELSE Add(Head(arr), nansum(Tail(arr)))

\* np.nanmean: the sum of the entries that are not NaN over their count
nanmean(arr) ==
    IF NotNaN(arr) = {} THEN NaN
    ELSE Div(nansum(arr), Q(Cardinality(NotNaN(arr)), 1))

\* round(x, 3) of a numpy float: to the nearest multiple of 1/1000, ties to the
\* even multiple; NaN and the infinities are returned as they are
round3(x) ==
    IF ~isfinite(x) THEN x
    ELSE LET m == 1000 * x.num
             q == m \div x.den
             r == m % x.den
             k == IF 2 * r < x.den THEN q
                  ELSE IF 2 * r > x.den THEN q + 1
                  ELSE IF q % 2 = 0 THEN q ELSE q + 1
         IN  Q(k, 1000)

analyze_ndvi(arr) ==
    LET a == mask_nonfinite(arr)
        ndvi_min == nanmin(a)
        ndvi_max == nanmax(a)
        ndvi_mean == nanmean(a)
    IN  [kind      |-> "stats",
         NDVI_Min  |-> round3(ndvi_min),
         NDVI_Max  |-> round3(ndvi_max),
         NDVI_Mean |-> round3(ndvi_mean),
         Min_Desc  |-> explain_ndvi(ndvi_min),
         Max_Desc  |-> explain_ndvi(ndvi_max),
         Mean_Desc |-> explain_ndvi(ndvi_mean)]

----------------------------------------------------------------------------
(* The statistics engine on its own: an array is given, analyze_ndvi is    *)
(* applied to it, explain_ndvi is applied to its entries.                  *)

MaxLen == 3

\* NDVI values around the thresholds 0, 0.2, 0.4, 0.6, and the missing markers
PixelValues ==
    {Q(-1, 10), Q(-4, 10000), Q(0, 1), Q(3, 1000), Q(15, 100), Q(1996, 10000),
     Q(2, 10), Q(35, 100), Q(4, 10), Q(6, 10), Q(8, 10), NaN, PInf, NInf}

Arrays == UNION {[1..n -> PixelValues] : n \in 1..MaxLen}

StatsIdle ==
    UNCHANGED <<band, normalized, src, shown, pc, inputs, sample_paths, image_names,
                ndvi_stats_list, fs, ui, sess>>

InitStats ==
    /\ ndvi \in Arrays
    /\ ndvi_stats = None
    /\ value = None
    /\ label = None
    /\ band = <<>>
    /\ normalized = None
    /\ src = NoRaster
    /\ shown = None
    /\ pc = None
    /\ inputs = None
    /\ sample_paths = None
    /\ image_names = None
    /\ ndvi_stats_list = None
    /\ fs = None
    /\ ui = None
    /\ sess = None

Analyze ==
    /\ ndvi_stats = None
    /\ ndvi_stats' = analyze_ndvi(ndvi)
    /\ UNCHANGED <<ndvi, value, label>>
    /\ StatsIdle

Explain(i) ==
    /\ value' = ndvi[i]
    /\ label' = explain_ndvi(ndvi[i])
    /\ UNCHANGED <<ndvi, ndvi_stats>>
    /\ StatsIdle

NextStats == Analyze \/ \E i \in DOMAIN ndvi : Explain(i)

SpecStats == InitStats /\ [][NextStats]_vars

----------------------------------------------------------------------------
(* False colour composite: create_fcc_image, its inner normalize, and      *)
(* process_and_display.  A raster is [bands, bad]: the sequence of its     *)
(* bands, and the index of a band whose read raises an I/O error (0: none).*)
(* src.read(k) also raises when the raster has fewer than k bands.         *)

\* src.read(k) raises
read_fails(raster, k) == k > Len(raster.bands) \/ k = raster.bad

\* a plausible slip: the max == min guard left out
normalize_unguarded(arr) ==
    [i \in DOMAIN arr |-> Div(Sub(arr[i], nanmin(arr)), Sub(nanmax(arr), nanmin(arr)))]

normalize(arr) ==
    LET arr_min == nanmin(arr)
        arr_max == nanmax(arr)
    IN  IF Gt(arr_max, arr_min)
        THEN [i \in DOMAIN arr |-> Div(Sub(arr[i], arr_min), Sub(arr_max, arr_min))]
        ELSE [i \in DOMAIN arr |-> Mul(arr[i], Q(0, 1))]

\* np.clip(x, 0, 1): NaN stays NaN
clip(x) ==
    IF isnan(x) THEN x
    ELSE IF Lt(x, Q(0, 1)) THEN Q(0, 1)
    ELSE IF Gt(x, Q(1, 1)) THEN Q(1, 1)
    ELSE x

create_fcc_image(raster) ==
    IF read_fails(raster, 4) \/ read_fails(raster, 3) \/ read_fails(raster, 2)
    THEN None
    ELSE LET r == normalize(raster.bands[4])
             g == normalize(raster.bands[3])
             b == normalize(raster.bands[2])
         IN  [kind |-> "fcc",
              r |-> [i \in DOMAIN r |-> clip(r[i])],
              g |-> [i \in DOMAIN g |-> clip(g[i])],
              b |-> [i \in DOMAIN b |-> clip(b[i])]]

FccCaption == "Input Image - False Color Composite (Bands 4,3,2)"
GrayCaption == "Input Image - Band 1 Grayscale (FCC not available)"

\* a plausible slip: the composite is shown without the fallback to band 1
display_no_fallback(raster) ==
    [kind          |-> "shown",
     fcc_img       |-> create_fcc_image(raster),
     input_image   |-> create_fcc_image(raster),
     input_caption |-> FccCaption,
     cmap          |-> "default",
     ndvi_map      |-> raster.bands[1],
     ndvi_stats    |-> analyze_ndvi(raster.bands[1])]

\* process_and_display once the raster is open: what it renders and returns
display(raster) ==
    LET fcc_img == create_fcc_image(raster)
        band1 == raster.bands[1]
    IN  [kind          |-> "shown",
         fcc_img       |-> fcc_img,
         input_image   |-> IF fcc_img # None THEN fcc_img
                           ELSE [kind |-> "band", arr |-> band1],
         input_caption |-> IF fcc_img # None THEN FccCaption ELSE GrayCaption,
         cmap          |-> IF fcc_img # None THEN "default" ELSE "gray",
         ndvi_map      |-> band1,
         ndvi_stats    |-> analyze_ndvi(band1)]

MaxBandLen == 3
PixelsPerBand == 2
NumBands == 4

\* pixels of the band given to normalize on its own
NormPixels == {Q(-1, 1), Q(0, 1), Q(1, 1), Q(3, 1), NaN, PInf}

NormBands == UNION {[1..n -> NormPixels] : n \in 1..MaxBandLen}

\* pixels of the bands of a whole raster
RasterPixels == {Q(0, 1), Q(1, 2)}

RasterBands == [1..PixelsPerBand -> RasterPixels]

Rasters ==
    {[bands |-> bs, bad |-> k] :
        bs \in UNION {[1..n -> RasterBands] : n \in 1..NumBands}, k \in {0, 2, 3, 4}}

FccIdle ==
    UNCHANGED <<ndvi, ndvi_stats, value, label, pc, inputs, sample_paths, image_names,
                ndvi_stats_list, fs, ui, sess>>

InitFcc ==
    /\ \/ band \in NormBands /\ src = NoRaster
       \/ band = <<>> /\ src \in Rasters
    /\ normalized = None
    /\ shown = None
    /\ ndvi = None
    /\ ndvi_stats = None
    /\ value = None
    /\ label = None
    /\ pc = None
    /\ inputs = None
    /\ sample_paths = None
    /\ image_names = None
    /\ ndvi_stats_list = None
    /\ fs = None
    /\ ui = None
    /\ sess = None

Normalize ==
    /\ band # <<>>
    /\ normalized = None
    /\ normalized' = [kind |-> "array", arr |-> normalize(band)]
    /\ UNCHANGED <<band, src, shown>>
    /\ FccIdle

ProcessAndDisplay ==
    /\ src # NoRaster
    /\ shown = None
    /\ shown' = display(src)
    /\ UNCHANGED <<band, normalized, src>>
    /\ FccIdle

NextFcc == Normalize \/ ProcessAndDisplay

SpecFcc == InitFcc /\ [][NextFcc]_vars

----------------------------------------------------------------------------
(* The script run of one session: sample load, upload, report, AI section. *)
(* A file name or path is the sequence of its pieces, a space being a      *)
(* piece of its own.  The content of a file is the number of a raster      *)
(* (RasterOf), EmptyFile for a file that was created or truncated and not  *)
(* written yet.                                                            *)

NumSamples == 4
MaxUploads == 2

\* sample_files[i]["name"]
sample_name(i) == <<"NDVI", " ", <<"2020", "2021", "2022", "2023">>[i], ".tif">>

\* the GeoTIFF behind sample_files[i]["id"]
sample_content(i) == i

EmptyFile == 0

UploadContents == {5, 6}

\* a raster with 4 bands for an even content, a single band for an odd one;
\* band 1 differs from content to content
RasterOf(c) ==
    LET b1 == <<Q(c, 10), Q(c + 1, 20)>>
    IN  [bands |-> IF c % 2 = 0
                   THEN <<b1, <<Q(c, 1), Q(c, 1)>>, <<Q(0, 1), Q(c, 1)>>, <<Q(1, 1), Q(1, 1)>>>>
                   ELSE <<b1>>,
         bad |-> 0]

UploadNames == {<<"NDVI", " ", "2020", ".tif">>, <<"NDVI", "_", "2020", ".tif">>}

UploadedFile == [name : UploadNames, content : UploadContents]

UploadLists == UNION {[1..n -> UploadedFile] : n \in 0..MaxUploads}

\* OPENROUTER_API_KEY: unset, empty, blank, or a key
Environments ==
    {[set |-> FALSE, val |-> <<>>], [set |-> TRUE, val |-> <<>>],
     [set |-> TRUE, val |-> <<" ", " ">>], [set |-> TRUE, val |-> <<"sk", "-", "1">>]}

\* what the chat endpoint does when it is called
AiOutcomes == {"text", "empty", "raises"}

\* str.strip(): leading and trailing spaces removed
RECURSIVE lstrip(_)
lstrip(s) == IF s # <<>> /\ Head(s) = " " THEN lstrip(Tail(s)) ELSE s

RECURSIVE rstrip(_)
rstrip(s) == IF s # <<>> /\ s[Len(s)] = " " THEN rstrip(SubSeq(s, 1, Len(s) - 1)) ELSE s

strip(s) == rstrip(lstrip(s))

\* name.replace(" ", "_")
replace_spaces(name) == [i \in DOMAIN name |-> IF name[i] = " " THEN "_" ELSE name[i]]

\* os.path.join(tempfile.gettempdir(), uploaded_file.name.replace(" ", "_"))
temp_path(name) == <<"/tmp/">> \o replace_spaces(name)

\* tempfile.NamedTemporaryFile(delete=False, suffix=".tif").name: a fresh name
named_temporary_file(i) == <<"/tmp/", <<"tmp1", "tmp2", "tmp3", "tmp4">>[i], ".tif">>

\* the file system with path holding content
write_file(fsys, path, content) ==
    [p \in DOMAIN fsys \cup {path} |-> IF p = path THEN content ELSE fsys[p]]

\* a plausible slip: the exception of a failed download is not caught
download_uncaught(fsys, i, ok) ==
    LET path == named_temporary_file(i)
    IN  IF ok
        THEN [raised |-> FALSE, path |-> path, error |-> <<>>,
              fs |-> write_file(fsys, path, sample_content(i))]
        ELSE [raised |-> TRUE, path |-> <<>>, error |-> <<>>,
              fs |-> write_file(fsys, path, EmptyFile)]

\* download_file_from_gdrive(sample_files[i]["id"]); ok: gdown.download returns,
\* otherwise it raises.  path <<>> is the None the caller tests.
download_file_from_gdrive(fsys, i, ok) ==
    LET path == named_temporary_file(i)
    IN  IF ok
        THEN [raised |-> FALSE, path |-> path, error |-> <<>>,
              fs |-> write_file(fsys, path, sample_content(i))]
        ELSE [raised |-> FALSE, path |-> <<>>,
              error |-> <<[level |-> "error", about |-> <<"download", i>>]>>,
              fs |-> write_file(fsys, path, EmptyFile)]

\* process_and_display(path, filename): rasterio.open raises on a file that is
\* no GeoTIFF (absent or empty)
process_and_display(fsys, path, filename) ==
    IF path \notin DOMAIN fsys \/ fsys[path] = EmptyFile
    THEN [raised |-> TRUE, filename |-> filename, shown |-> None]
    ELSE [raised |-> FALSE, filename |-> filename, shown |-> display(RasterOf(fsys[path]))]

\* a plausible slip: the exception of the chat call is not caught
call_minimax_ai_uncaught(env, outcome) ==
    IF ~env.set \/ strip(env.val) = <<>>
    THEN [raised |-> FALSE, value |-> "", messages |-> <<[level |-> "warning", about |-> <<"key">>]>>]
    ELSE IF outcome = "raises"
    THEN [raised |-> TRUE, value |-> "", messages |-> <<>>]
    ELSE [raised |-> FALSE, value |-> IF outcome = "text" THEN "narrative" ELSE "",
          messages |-> <<>>]

\* call_minimax_ai(prompt_messages); value "" stands for None and for an empty
\* completion, the two values the caller's truth test takes for absence
call_minimax_ai(env, outcome) ==
    IF ~env.set \/ strip(env.val) = <<>>
    THEN [raised |-> FALSE, value |-> "", messages |-> <<[level |-> "warning", about |-> <<"key">>]>>]
    ELSE IF outcome = "raises"
    THEN [raised |-> FALSE, value |-> "", messages |-> <<[level |-> "error", about |-> <<"ai">>]>>]
    ELSE [raised |-> FALSE, value |-> IF outcome = "text" THEN "narrative" ELSE "",
          messages |-> <<>>]

\* generate_ai_temporal_analysis: the prompt is built from the names and the
\* numbers, and the call's result is returned
generate_ai_temporal_analysis(names, stats_list, env, outcome) ==
    call_minimax_ai(env, outcome)

\* a plausible slip: the rows are keyed by the image name, a later image of the
\* same name replacing the earlier one
build_rows_by_name(names, stats_list) ==
    LET last(i) == \A j \in DOMAIN names : names[j] = names[i] => j <= i
        keep == SelectSeq([i \in DOMAIN names |-> i], last)
    IN  [k \in DOMAIN keep |->
            [Image_Name |-> names[keep[k]],
             NDVI_Min   |-> stats_list[keep[k]].NDVI_Min,
             NDVI_Max   |-> stats_list[keep[k]].NDVI_Max,
             NDVI_Mean  |-> stats_list[keep[k]].NDVI_Mean]]

\* the rows of zip(image_names, ndvi_stats_list)
build_rows(names, stats_list) ==
    LET n == IF Len(names) < Len(stats_list) THEN Len(names) ELSE Len(stats_list)
    IN  [i \in 1..n |->
            [Image_Name |-> names[i],
             NDVI_Min   |-> stats_list[i].NDVI_Min,
             NDVI_Max   |-> stats_list[i].NDVI_Max,
             NDVI_Mean  |-> stats_list[i].NDVI_Mean]]

\* pd.DataFrame(rows).set_index("Image Name"): an index and three columns
data_frame(rows) ==
    [kind      |-> "df",
     index     |-> [i \in DOMAIN rows |-> rows[i].Image_Name],
     NDVI_Min  |-> [i \in DOMAIN rows |-> rows[i].NDVI_Min],
     NDVI_Max  |-> [i \in DOMAIN rows |-> rows[i].NDVI_Max],
     NDVI_Mean |-> [i \in DOMAIN rows |-> rows[i].NDVI_Mean]]

\* df.to_excel: a header row, then one row of cells per index entry; columns
\* B:D carry the number format 0.000, which changes the display and not the cell
to_excel(df) ==
    [kind   |-> "xlsx",
     header |-> <<"Image Name", "NDVI Min", "NDVI Max", "NDVI Mean">>,
     format |-> "0.000",
     cells  |-> [i \in DOMAIN df.index |->
                    [A |-> df.index[i], B |-> df.NDVI_Min[i],
                     C |-> df.NDVI_Max[i], D |-> df.NDVI_Mean[i]]]]

At(where, i) == [at |-> where, i |-> i]

NoUi ==
    [messages |-> <<>>, sections |-> <<>>, table |-> None, excel |-> None,
     download_button |-> FALSE, ai_ran |-> FALSE, ai_section |-> "none"]

RunInputs ==
    {[load_samples_clicked |-> c, download |-> d, uploaded_files |-> u, env |-> e, ai |-> a] :
        c \in BOOLEAN, d \in [1..NumSamples -> BOOLEAN], u \in UploadLists,
        e \in Environments, a \in AiOutcomes}

\* inputs that differ only in a part the run never reads are taken once
Canonical(inp) ==
    /\ ~inp.load_samples_clicked => \A i \in 1..NumSamples : inp.download[i]
    /\ (~inp.env.set \/ strip(inp.env.val) = <<>>) => inp.ai = "text"

RunIdle == UNCHANGED <<ndvi, ndvi_stats, value, label, band, normalized, src, shown, sess>>

InitRun ==
    /\ inputs \in {inp \in RunInputs : Canonical(inp)}
    /\ pc = At("start", 0)
    /\ sample_paths = <<>>
    /\ image_names = <<>>
    /\ ndvi_stats_list = <<>>
    /\ fs = <<>>
    /\ ui = NoUi
    /\ ndvi = <<>>
    /\ ndvi_stats = None
    /\ value = None
    /\ label = None
    /\ band = <<>>
    /\ normalized = None
    /\ src = NoRaster
    /\ shown = None
    /\ sess = None

\* lines 266-273: the lists are emptied and the button is tested
Start ==
    /\ pc.at = "start"
    /\ pc' = IF inputs.load_samples_clicked THEN At("download", 1) ELSE At("upload", 1)
    /\ UNCHANGED <<inputs, sample_paths, image_names, ndvi_stats_list, fs, ui>>
    /\ RunIdle

\* lines 276-279: one turn of the download loop
Download ==
    /\ pc.at = "download"
    /\ LET res == download_file_from_gdrive(fs, pc.i, inputs.download[pc.i])
       IN  /\ fs' = res.fs
           /\ ui' = [ui EXCEPT !.messages = @ \o res.error]
           /\ sample_paths' = IF ~res.raised /\ res.path # <<>>
                              THEN Append(sample_paths, <<res.path, sample_name(pc.i)>>)
                              ELSE sample_paths
           /\ pc' = IF res.raised THEN At("crashed", 0)
                    ELSE IF pc.i = NumSamples THEN At("process", 1)
                    ELSE At("download", pc.i + 1)
    /\ UNCHANGED <<inputs, image_names, ndvi_stats_list>>
    /\ RunIdle

\* lines 280-284: one turn of the loop over sample_paths
ProcessSample ==
    /\ pc.at = "process"
    /\ pc.i <= Len(sample_paths)
    /\ LET path == sample_paths[pc.i][1]
           name == sample_paths[pc.i][2]
           res == process_and_display(fs, path, name)
       IN  IF res.raised
           THEN /\ pc' = At("crashed", 0)
                /\ UNCHANGED <<image_names, ndvi_stats_list, ui>>
           ELSE /\ ui' = [ui EXCEPT !.sections = Append(@, [filename |-> name,
                                        caption |-> res.shown.input_caption])]
                /\ image_names' = Append(image_names, name)
                /\ ndvi_stats_list' = Append(ndvi_stats_list, res.shown.ndvi_stats)
                /\ pc' = At("process", pc.i + 1)
    /\ UNCHANGED <<inputs, sample_paths, fs>>
    /\ RunIdle

\* the loop over sample_paths has ended
SamplesDone ==
    /\ pc.at = "process"
    /\ pc.i > Len(sample_paths)
    /\ pc' = At("upload", 1)
    /\ UNCHANGED <<inputs, sample_paths, image_names, ndvi_stats_list, fs, ui>>
    /\ RunIdle

\* lines 291-297: one turn of the loop over uploaded_files
Upload ==
    /\ pc.at = "upload"
    /\ pc.i <= Len(inputs.uploaded_files)
    /\ LET uploaded_file == inputs.uploaded_files[pc.i]
           path == temp_path(uploaded_file.name)
           written == write_file(fs, path, uploaded_file.content)
           res == process_and_display(written, path, uploaded_file.name)
       IN  /\ fs' = written
           /\ IF res.raised
              THEN /\ pc' = At("crashed", 0)
                   /\ UNCHANGED <<image_names, ndvi_stats_list, ui>>
              ELSE /\ ui' = [ui EXCEPT !.sections = Append(@, [filename |-> uploaded_file.name,
                                           caption |-> res.shown.input_caption])]
                   /\ image_names' = Append(image_names, uploaded_file.name)
                   /\ ndvi_stats_list' = Append(ndvi_stats_list, res.shown.ndvi_stats)
                   /\ pc' = At("upload", pc.i + 1)
    /\ UNCHANGED <<inputs, sample_paths>>
    /\ RunIdle

\* the loop over uploaded_files has ended
UploadsDone ==
    /\ pc.at = "upload"
    /\ pc.i > Len(inputs.uploaded_files)
    /\ pc' = At("report", 0)
    /\ UNCHANGED <<inputs, sample_paths, image_names, ndvi_stats_list, fs, ui>>
    /\ RunIdle

\* lines 299-332: the table, the spreadsheet and its download button
Report ==
    /\ pc.at = "report"
    /\ IF image_names # <<>> /\ ndvi_stats_list # <<>>
       THEN LET df == data_frame(build_rows(image_names, ndvi_stats_list))
            IN  /\ ui' = [ui EXCEPT !.table = df, !.excel = to_excel(df),
                                    !.download_button = TRUE]
                /\ pc' = IF Len(ndvi_stats_list) >= 2 THEN At("ai", 0) ELSE At("footer", 0)
       ELSE /\ pc' = At("footer", 0)
            /\ UNCHANGED ui
    /\ UNCHANGED <<inputs, sample_paths, image_names, ndvi_stats_list, fs>>
    /\ RunIdle

\* lines 333-347: the trend plot and the AI narrative
AiSection ==
    /\ pc.at = "ai"
    /\ LET res == generate_ai_temporal_analysis(image_names, ndvi_stats_list,
                                                inputs.env, inputs.ai)
       IN  IF res.raised
           THEN /\ pc' = At("crashed", 0)
                /\ ui' = [ui EXCEPT !.ai_ran = TRUE]
           ELSE /\ pc' = At("footer", 0)
                /\ ui' = [ui EXCEPT !.ai_ran = TRUE,
                                    !.messages = @ \o res.messages
                                        \o (IF res.value # "" THEN <<>>
                                            ELSE <<[level |-> "info", about |-> <<"ai">>]>>),
                                    !.ai_section = IF res.value # "" THEN "narrative" ELSE "info"]
    /\ UNCHANGED <<inputs, sample_paths, image_names, ndvi_stats_list, fs>>
    /\ RunIdle

\* lines 349-373: the footer, the end of the script
Footer ==
    /\ pc.at = "footer"
    /\ pc' = At("done", 0)
    /\ UNCHANGED <<inputs, sample_paths, image_names, ndvi_stats_list, fs, ui>>
    /\ RunIdle

NextRun ==
    \/ Start
    \/ Download
    \/ ProcessSample
    \/ SamplesDone
    \/ Upload
    \/ UploadsDone
    \/ Report
    \/ AiSection
    \/ Footer

SpecRun == InitRun /\ [][NextRun]_vars

----------------------------------------------------------------------------
(* Two sessions in the upload path.  Streamlit runs the script of every    *)
(* session in a thread of the one server process, and the temp directory   *)
(* is the process's: fs is shared.  The steps of a turn of the upload loop *)
(* are the system calls between which another thread can run: open(...,    *)
(* "wb") creates or truncates the file, write and close fill it,           *)
(* rasterio.open in process_and_display reads it.                          *)

Sessions == {1, 2}

\* the bytes session s uploads: a raster of its own
session_content(s) == 4 + s

ConcNames == UploadNames \cup {<<"field", ".tif">>}

SessionUploads(s) ==
    UNION {[1..n -> [name : ConcNames, content : {session_content(s)}]] : n \in 1..MaxUploads}

ConcIdle ==
    UNCHANGED <<ndvi, ndvi_stats, value, label, band, normalized, src, shown, pc, inputs,
                sample_paths, image_names, ndvi_stats_list, ui>>

InitConc ==
    /\ sess \in {[t \in Sessions |->
                    [at |-> "open", i |-> 1, uploaded_files |-> IF t = 1 THEN u1 ELSE u2,
                     image_names |-> <<>>, ndvi_stats_list |-> <<>>]] :
                 u1 \in SessionUploads(1), u2 \in SessionUploads(2)}
    /\ fs = <<>>
    /\ pc = At("idle", 0)
    /\ inputs = None
    /\ sample_paths = <<>>
    /\ image_names = <<>>
    /\ ndvi_stats_list = <<>>
    /\ ui = NoUi
    /\ ndvi = <<>>
    /\ ndvi_stats = None
    /\ value = None
    /\ label = None
    /\ band = <<>>
    /\ normalized = None
    /\ src = NoRaster
    /\ shown = None

\* line 293: open(temp_path, "wb") creates the file or truncates it
SessOpen(s) ==
    /\ sess[s].at = "open"
    /\ fs' = write_file(fs, temp_path(sess[s].uploaded_files[sess[s].i].name), EmptyFile)
    /\ sess' = [sess EXCEPT ![s].at = "write"]
    /\ ConcIdle

\* line 294 and the end of the with block: the buffer is written and the file closed
SessWrite(s) ==
    /\ sess[s].at = "write"
    /\ fs' = write_file(fs, temp_path(sess[s].uploaded_files[sess[s].i].name),
                        sess[s].uploaded_files[sess[s].i].content)
    /\ sess' = [sess EXCEPT ![s].at = "process"]
    /\ ConcIdle

\* lines 295-297: process_and_display opens and reads the path; the lists grow
SessProcess(s) ==
    /\ sess[s].at = "process"
    /\ LET uploaded_file == sess[s].uploaded_files[sess[s].i]
           res == process_and_display(fs, temp_path(uploaded_file.name), uploaded_file.name)
       IN  sess' = [sess EXCEPT ![s] =
                IF res.raised
                THEN [@ EXCEPT !.at = "crashed"]
                ELSE [@ EXCEPT !.image_names = Append(@, uploaded_file.name),
                               !.ndvi_stats_list = Append(@, res.shown.ndvi_stats),
                               !.i = @ + 1,
                               !.at = IF sess[s].i = Len(sess[s].uploaded_files)
                                      THEN "done" ELSE "open"]]
    /\ UNCHANGED fs
    /\ ConcIdle

NextConc == \E s \in Sessions : SessOpen(s) \/ SessWrite(s) \/ SessProcess(s)

SpecConc == InitConc /\ [][NextConc]_vars

----------------------------------------------------------------------------
(* Properties of the statistics engine *)

\* x <= y on floats
Le(x, y) == ~isnan(x) /\ ~isnan(y) /\ ~Lt(y, x)

AbsF(x) == IF Lt(x, Q(0, 1)) THEN Neg(x) ELSE x

HasFinite(arr) == \E i \in DOMAIN arr : isfinite(arr[i])

FiniteEntries(arr) == SelectSeq(arr, isfinite)

FiniteSet(arr) == {arr[i] : i \in {j \in DOMAIN arr : isfinite(arr[j])}}

RECURSIVE SeqSum(_)
SeqSum(xs) == IF xs = <<>> THEN Q(0, 1) ELSE Add(Head(xs), SeqSum(Tail(xs)))

LeastOf(S) == CHOOSE m \in S : \A y \in S : Le(m, y)
GreatestOf(S) == CHOOSE m \in S : \A y \in S : Le(y, m)
MeanOf(xs) == Div(SeqSum(xs), Q(Len(xs), 1))

\* r is x rounded to 3 decimals: a multiple of 1/1000 at most 0.0005 from x
IsRounded3(r, x) ==
    /\ isfinite(r)
    /\ 1000 % r.den = 0
    /\ Le(AbsF(Sub(r, x)), Q(1, 2000))

SameNumbers(s, t) ==
    /\ s.NDVI_Min = t.NDVI_Min
    /\ s.NDVI_Max = t.NDVI_Max
    /\ s.NDVI_Mean = t.NDVI_Mean

\* C1: for every finite value, explain_ndvi returns exactly one of the five labels,
\* chosen by closed-lower/open-upper bands at 0, 0.2, 0.4, 0.6; each boundary
\* value gets the label of the band that starts there.
C1_ExplainBands ==
    (value.kind = "fin") =>
        /\ label \in Labels
        /\ (label = NonVegetation) <=> Lt(value, Q(0, 1))
        /\ (label = VerySparse) <=> (Le(Q(0, 1), value) /\ Lt(value, Q(2, 10)))
        /\ (label = LowToModerate) <=> (Le(Q(2, 10), value) /\ Lt(value, Q(4, 10)))
        /\ (label = ModeratelyHealthy) <=> (Le(Q(4, 10), value) /\ Lt(value, Q(6, 10)))
        /\ (label = HealthyDense) <=> Le(Q(6, 10), value)
        /\ (value = Q(0, 1) => label = VerySparse)
        /\ (value = Q(2, 10) => label = LowToModerate)
        /\ (value = Q(4, 10) => label = ModeratelyHealthy)
        /\ (value = Q(6, 10) => label = HealthyDense)

\* explain_ndvi has classified the boundary value 0.2
C1_Witness == value = Q(2, 10) /\ label = LowToModerate

\* C2: for an array with at least one finite entry, the returned min, max and mean
\* are the minimum, maximum and arithmetic mean of exactly the finite entries,
\* rounded to 3 decimals; NaN and +/-Infinity entries never change them.
C2_FiniteEntriesOnly ==
    (ndvi_stats.kind = "stats" /\ HasFinite(ndvi)) =>
        /\ IsRounded3(ndvi_stats.NDVI_Min, LeastOf(FiniteSet(ndvi)))
        /\ IsRounded3(ndvi_stats.NDVI_Max, GreatestOf(FiniteSet(ndvi)))
        /\ IsRounded3(ndvi_stats.NDVI_Mean, MeanOf(FiniteEntries(ndvi)))
        /\ SameNumbers(ndvi_stats, analyze_ndvi(FiniteEntries(ndvi)))
        /\ \A x \in {NaN, PInf, NInf} :
              SameNumbers(ndvi_stats, analyze_ndvi(Append(ndvi, x)))

\* analyze_ndvi has returned for an array that mixes finite entries, NaN and an infinity
C2_Witness ==
    /\ ndvi_stats.kind = "stats"
    /\ HasFinite(ndvi)
    /\ \E i \in DOMAIN ndvi : isnan(ndvi[i])
    /\ \E i \in DOMAIN ndvi : ndvi[i] \in {PInf, NInf}

\* C8: for a non-empty array whose entries are all non-finite, analyze_ndvi returns
\* a record whose NDVI Min, NDVI Max and NDVI Mean are all NaN.
C8_AllMissingIsNaN ==
    (ndvi_stats.kind = "stats" /\ ~HasFinite(ndvi)) =>
        /\ isnan(ndvi_stats.NDVI_Min)
        /\ isnan(ndvi_stats.NDVI_Max)
        /\ isnan(ndvi_stats.NDVI_Mean)

\* analyze_ndvi has returned for an array of infinities and NaN only
C8_Witness ==
    /\ ndvi_stats.kind = "stats"
    /\ ~HasFinite(ndvi)
    /\ \E i \in DOMAIN ndvi : ndvi[i] = PInf
    /\ isnan(ndvi_stats.NDVI_Min)

\* C9: in every record returned for an array with a finite entry, each label is
\* explain_ndvi of the rounded number it is paired with.
C9_LabelsMatchRounded ==
    (ndvi_stats.kind = "stats" /\ HasFinite(ndvi)) =>
        /\ ndvi_stats.Min_Desc = explain_ndvi(ndvi_stats.NDVI_Min)
        /\ ndvi_stats.Max_Desc = explain_ndvi(ndvi_stats.NDVI_Max)
        /\ ndvi_stats.Mean_Desc = explain_ndvi(ndvi_stats.NDVI_Mean)

----------------------------------------------------------------------------
(* Properties of the composite *)

AllFinite(arr) == \A i \in DOMAIN arr : isfinite(arr[i])

IsConstant(arr) == \A i, j \in DOMAIN arr : arr[i] = arr[j]

AllZero(arr) == \A i \in DOMAIN arr : arr[i] = Q(0, 1)

ReadFails(raster) == \E k \in {2, 3, 4} : k > Len(raster.bands) \/ k = raster.bad

\* C3: for a band whose pixels are all finite, normalize returns a band of the same
\* shape with every pixel in [0,1] and never NaN: all zeros when the band is
\* constant, otherwise (x - min)/(max - min), the minimum mapped to 0 and the
\* maximum to 1; a 4-band image whose bands 2, 3, 4 are constant gives an all-zero
\* composite.
C3_NormalizeRange ==
    /\ (normalized.kind = "array" /\ AllFinite(band)) =>
          LET out == normalized.arr
              lo == LeastOf(FiniteSet(band))
              hi == GreatestOf(FiniteSet(band))
          IN  /\ DOMAIN out = DOMAIN band
              /\ \A i \in DOMAIN out :
                    /\ isfinite(out[i])
                    /\ Le(Q(0, 1), out[i])
                    /\ Le(out[i], Q(1, 1))
                    /\ (band[i] = lo /\ lo # hi) => out[i] = Q(0, 1)
                    /\ (band[i] = hi /\ lo # hi) => out[i] = Q(1, 1)
                    /\ Mul(out[i], Sub(hi, lo)) = (IF lo = hi THEN Q(0, 1) ELSE Sub(band[i], lo))
              /\ IsConstant(band) => AllZero(out)
    /\ (/\ shown.kind = "shown"
        /\ ~ReadFails(src)
        /\ \A k \in {2, 3, 4} : AllFinite(src.bands[k]) /\ IsConstant(src.bands[k])) =>
          /\ shown.fcc_img.kind = "fcc"
          /\ AllZero(shown.fcc_img.r)
          /\ AllZero(shown.fcc_img.g)
          /\ AllZero(shown.fcc_img.b)

\* normalize has returned all zeros for a constant band
C3_Witness ==
    /\ normalized.kind = "array"
    /\ band = <<Q(3, 1), Q(3, 1)>>
    /\ AllZero(normalized.arr)

\* further cases of C3 that are reached: a band with a pixel strictly between its
\* minimum and maximum, and a composite of three constant bands
C3_ReachedInterior ==
    /\ normalized.kind = "array"
    /\ band = <<Q(-1, 1), Q(0, 1), Q(3, 1)>>
    /\ normalized.arr = <<Q(0, 1), Q(1, 4), Q(1, 1)>>

C3_ReachedBlackComposite ==
    /\ shown.kind = "shown"
    /\ ~ReadFails(src)
    /\ \A k \in {2, 3, 4} : IsConstant(src.bands[k])
    /\ AllZero(shown.fcc_img.r) /\ AllZero(shown.fcc_img.g) /\ AllZero(shown.fcc_img.b)

\* C4: when reading any of bands 4, 3, 2 fails, create_fcc_image returns None and
\* process_and_display shows band 1 in grayscale and returns the statistics of
\* band 1; when all three reads succeed the composite is shown.
C4_GrayscaleFallback ==
    (shown.kind = "shown") =>
        /\ ReadFails(src) =>
              /\ shown.fcc_img = None
              /\ shown.input_image = [kind |-> "band", arr |-> src.bands[1]]
              /\ shown.cmap = "gray"
              /\ shown.input_caption = GrayCaption
        /\ ~ReadFails(src) =>
              /\ shown.fcc_img.kind = "fcc"
              /\ shown.input_image = shown.fcc_img
              /\ shown.input_caption = FccCaption
        /\ shown.ndvi_stats.kind = "stats"
        /\ shown.ndvi_stats = analyze_ndvi(src.bands[1])
        /\ IsRounded3(shown.ndvi_stats.NDVI_Mean, MeanOf(src.bands[1]))

\* a single-band raster has been displayed through the grayscale fallback
C4_Witness ==
    /\ shown.kind = "shown"
    /\ Len(src.bands) = 1
    /\ shown.cmap = "gray"
    /\ shown.ndvi_stats.kind = "stats"

----------------------------------------------------------------------------
(* Properties of the script run *)

SampleIndices == [i \in 1..NumSamples |-> i]

Downloaded(i) == inputs.download[i]
NotDownloaded(i) == ~inputs.download[i]

\* the samples whose download succeeded, and those whose download failed, in sample order
OkSamples == SelectSeq(SampleIndices, Downloaded)
FailedSamples == SelectSeq(SampleIndices, NotDownloaded)

\* the statistics of the raster with content c, from its band 1
StatsOfContent(c) == analyze_ndvi(RasterOf(c).bands[1])

IsDownloadError(m) == m.level = "error" /\ m.about[1] = "download"

SamplesPassed == inputs.load_samples_clicked /\ pc.at \in {"upload", "report", "ai", "footer", "done"}

\* C5: in the sample pass, each failed download is reported and adds no entry to
\* image_names / ndvi_stats_list, every downloaded sample is processed and
\* reported in sample order, and no failure stops the samples after it.
C5_FailedDownloadsSkipped ==
    /\ pc.at # "crashed"
    /\ SamplesPassed =>
          /\ Len(image_names) >= Len(OkSamples)
          /\ Len(ndvi_stats_list) >= Len(OkSamples)
          /\ Len(ui.sections) >= Len(OkSamples)
          /\ \A k \in DOMAIN OkSamples :
                /\ image_names[k] = sample_name(OkSamples[k])
                /\ ui.sections[k].filename = sample_name(OkSamples[k])
                /\ ndvi_stats_list[k] = StatsOfContent(sample_content(OkSamples[k]))
          /\ SelectSeq(ui.messages, IsDownloadError)
                = [k \in DOMAIN FailedSamples |->
                      [level |-> "error", about |-> <<"download", FailedSamples[k]>>]]
          /\ (inputs.uploaded_files = <<>>) => Len(image_names) = Len(OkSamples)

\* the run has ended after the first and third downloads failed
C5_Witness ==
    /\ pc.at = "done"
    /\ inputs.load_samples_clicked
    /\ inputs.download = <<FALSE, TRUE, FALSE, TRUE>>
    /\ inputs.uploaded_files = <<>>
    /\ image_names = <<sample_name(2), sample_name(4)>>

KeyAbsent == ~inputs.env.set \/ \A i \in DOMAIN inputs.env.val : inputs.env.val[i] = " "

IsAiInfo(m) == m.level = "info" /\ m.about[1] = "ai"

\* C6: with at least one image the table and the spreadsheet download are produced
\* whatever the AI step does; the AI step runs only with at least 2 images; with
\* the key missing or blank, or the call raising, the run shows the
\* 'AI analysis unavailable' message and reaches the end of the script.
C6_AiNeverBlocksReport ==
    /\ pc.at \in {"start", "download", "process", "upload", "report", "ai", "footer", "done"}
    /\ (pc.at \in {"ai", "footer", "done"} /\ Len(image_names) >= 1) =>
          /\ ui.table.kind = "df"
          /\ ui.excel.kind = "xlsx"
          /\ ui.download_button
    /\ ui.ai_ran => Len(image_names) >= 2
    /\ (pc.at \in {"footer", "done"} /\ Len(image_names) >= 2) => ui.ai_ran
    /\ (ui.ai_ran /\ pc.at \in {"footer", "done"} /\ (KeyAbsent \/ inputs.ai = "raises")) =>
          /\ ui.ai_section = "info"
          /\ Len(SelectSeq(ui.messages, IsAiInfo)) = 1

\* the run has ended after the chat call raised
C6_Witness ==
    /\ pc.at = "done"
    /\ ~KeyAbsent
    /\ inputs.ai = "raises"
    /\ ui.ai_ran
    /\ ui.ai_section = "info"
    /\ ui.download_button

ProcessedOk(k) == [name |-> sample_name(OkSamples[k]), content |-> sample_content(OkSamples[k])]

\* the images of the run in processing order: the downloaded samples, then the uploads
Expected ==
    (IF inputs.load_samples_clicked THEN [k \in DOMAIN OkSamples |-> ProcessedOk(k)] ELSE <<>>)
        \o inputs.uploaded_files

\* C7: after a run, image_names and ndvi_stats_list have the same length, the i-th
\* record is the one computed from the i-th named image, and the exported table
\* has one row per processed image in processing order with that image's name
\* and its three rounded values.
C7_OneRowPerImage ==
    (pc.at \in {"report", "ai", "footer", "done"}) =>
        /\ Len(image_names) = Len(ndvi_stats_list)
        /\ Len(image_names) = Len(Expected)
        /\ \A i \in DOMAIN Expected :
              /\ image_names[i] = Expected[i].name
              /\ ndvi_stats_list[i] = StatsOfContent(Expected[i].content)
              /\ IsRounded3(ndvi_stats_list[i].NDVI_Mean,
                            MeanOf(RasterOf(Expected[i].content).bands[1]))
        /\ (pc.at # "report" /\ Expected # <<>>) =>
              /\ ui.excel.kind = "xlsx"
              /\ DOMAIN ui.excel.cells = DOMAIN Expected
              /\ ui.table.index = image_names
              /\ \A i \in DOMAIN Expected :
                    /\ ui.excel.cells[i].A = Expected[i].name
                    /\ ui.excel.cells[i].B = ndvi_stats_list[i].NDVI_Min
                    /\ ui.excel.cells[i].C = ndvi_stats_list[i].NDVI_Max
                    /\ ui.excel.cells[i].D = ndvi_stats_list[i].NDVI_Mean

\* a run has ended that loaded samples and then took two uploads sharing a temp path
C7_Witness ==
    /\ pc.at = "done"
    /\ inputs.load_samples_clicked
    /\ Len(OkSamples) >= 1
    /\ Len(inputs.uploaded_files) = 2
    /\ temp_path(inputs.uploaded_files[1].name) = temp_path(inputs.uploaded_files[2].name)
    /\ inputs.uploaded_files[1].name # inputs.uploaded_files[2].name
    /\ inputs.uploaded_files[1].content # inputs.uploaded_files[2].content
    /\ Len(ui.excel.cells) = Len(OkSamples) + 2

----------------------------------------------------------------------------
(* Properties of two sessions *)

\* C10: when two sessions upload files whose names are equal after replacing
\* spaces by underscores, each session's statistics are computed from the bytes
\* that session uploaded, under every interleaving: no session reads a file
\* written, or partly written, by the other.
C10_SessionsIsolated ==
    \A s \in Sessions :
        /\ sess[s].at # "crashed"
        /\ \A i \in DOMAIN sess[s].ndvi_stats_list :
              sess[s].ndvi_stats_list[i] = StatsOfContent(sess[s].uploaded_files[i].content)

====
